---- MODULE Spec2Model ----
(***************************************************************************)
(* Charting component of jenil/charting-framerx (Charting.tsx).            *)
(*                                                                         *)
(* The component is a React function component: every invocation of        *)
(* Charting(props) projects the props into the options object of the       *)
(* charting library and hands options and the stored series to <Chart>.    *)
(* The stored series are regenerated by makeSeries in an effect whose      *)
(* dependencies are seriesCount and points.                                *)
(*                                                                         *)
(* Numbers: timestamps are milliseconds relative to an arbitrary epoch;    *)
(* fillOpacity is kept in tenths (0.8 is 8); Math.random() is kept in      *)
(* thousandths (0.999 is 999).  Colour strings are sequences of            *)
(* one-character strings so that startsWith and the regular expression     *)
(* can be computed on them.                                                *)
(***************************************************************************)
EXTENDS Integers, Sequences, FiniteSets, TLC

\* ------------------------------------------------------------------------
\* Bounds of the model
\* ------------------------------------------------------------------------
MaxSeries == 2
MaxPoints == 3
MaxTick == 1
MaxColors == 2
MaxChanges == 2

\* ------------------------------------------------------------------------
\* Program constants
\* ------------------------------------------------------------------------
Hour == 3600000
MinValue == 250
RandomScale == 3000

\* Math.random() samples, in thousandths: 0.083 and 0.999.
RandomSamples == {83, 999}

Instances == {1, 2}

VARIABLES
    now,            \* the clock Date.now() reads
    genPc,          \* position of a stand-alone makeSeries call
    genArgs,        \* its arguments and the entropy and clock it will consume
    genResult,      \* its return value
    props,          \* per instance: the props of the last invocation
    series,         \* per instance: useState series
    mounted,        \* per instance: useState mounted
    phase,          \* per instance: "absent", "live", "crashed"
    effectPending,  \* per instance: the useEffect callback is scheduled
    dirty,          \* per instance: a state update awaits its re-render
    rendered,       \* per instance: the elements returned by the last invocation
    panel,          \* per instance: the controls the property panel hides
    lastEvent,      \* the step taken last: kind and instance
    changes         \* number of host changes so far

vars == <<now, genPc, genArgs, genResult, props, series, mounted, phase,
          effectPending, dirty, rendered, panel, lastEvent, changes>>

genVars == <<genPc, genArgs, genResult>>
compVars == <<props, series, mounted, phase, effectPending, dirty, rendered,
              panel, changes>>

\* ------------------------------------------------------------------------
\* makeSeries
\* ------------------------------------------------------------------------
Max2(a, b) == IF a >= b THEN a ELSE b

\* (Math.random() * 3000) | 0 for Math.random() = u / 1000
RandomInt(u) == (u * RandomScale) \div 1000

\* The clock value seen by the k-th call of Date.now() of one makeSeries
\* call that starts at clock t: the clock has advanced by one millisecond
\* before read p for every entry p of ticks (0: no advance).
ClockRead(t, ticks, k) ==
    t + Cardinality({j \in DOMAIN ticks : ticks[j] # 0 /\ ticks[j] <= k})

\* genDateValue without Math.max(250, ..)
genDateValue_NoMax(n, base, reads, draws) ==
    [i \in 1..n |->
        [date  |-> reads[base + i] - (i - 1) * Hour,
         value |-> RandomInt(draws[base + i])]]

\* genDateValue(n) for the series whose first point is evaluation number
\* base + 1: reads[k] is Date.now() and draws[k] is Math.random() of
\* evaluation k.
genDateValue(n, base, reads, draws) ==
    [i \in 1..n |->
        [date  |-> reads[base + i] - (i - 1) * Hour,
         value |-> Max2(MinValue, RandomInt(draws[base + i]))]]

\* makeSeries(seriesCount, points): Array(seriesCount).fill(..).map(..)
makeSeries(seriesCount, points, reads, draws) ==
    [s \in 1..seriesCount |->
        [data |->
            LET gen == genDateValue(points, (s - 1) * points, reads, draws)
            IN  [i \in 1..points |-> <<gen[i].date, gen[i].value>>]]]

\* Entropy and clock behaviour one call with n evaluations can meet.
DrawsFor(n) == [1..n -> RandomSamples]
TicksFor(n) == [1..MaxTick -> 0..n]
ReadsOf(t, ticks, n) == [k \in 1..n |-> ClockRead(t, ticks, k)]

\* ------------------------------------------------------------------------
\* Colour strings
\* ------------------------------------------------------------------------
\* "#ff0000"
HexRed == <<"#", "f", "f", "0", "0", "0", "0">>
\* "red"
NamedRed == <<"r", "e", "d">>
\* "rgba(255,0,0,0.5)"
RgbaRed == <<"r", "g", "b", "a", "(", "2", "5", "5", ",", "0", ",", "0", ",", "0", ".", "5", ")">>
\* "var(--t, rgba(0,128,255,1))": a shared colour wrapping rgba(0,128,255,1)
VarBlue == <<"v", "a", "r", "(", "-", "-", "t", ",", " ", "r", "g", "b", "a", "(", "0", ",", "1", "2", "8", ",", "2", "5", "5", ",", "1", ")", ")">>
\* "var(--t, rgb(0,128,255)) /*(2)*/": a shared colour followed by a comment
VarBlueComment == <<"v", "a", "r", "(", "-", "-", "t", ",", " ", "r", "g", "b", "(", "0", ",", "1", "2", "8", ",", "2", "5", "5", ")", ")", " ", "/", "*", "(", "2", ")", "*", "/">>
\* "var(--t)": a reference with no embedded rgb()/rgba() expression
VarBare == <<"v", "a", "r", "(", "-", "-", "t", ")">>

ColorStrings == {HexRed, NamedRed, RgbaRed, VarBlue, VarBlueComment, VarBare}

DigitChars == <<"0", "1", "2", "3", "4", "5", "6", "7", "8", "9">>
HexChars == DigitChars \o <<"a", "b", "c", "d", "e", "f">>
IsDigit(ch) == \E n \in 1..10 : DigitChars[n] = ch
IsHexChar(ch) == \E n \in 1..16 : HexChars[n] = ch

\* String.prototype.startsWith
StartsWith(s, prefix) ==
    Len(s) >= Len(prefix) /\ SubSeq(s, 1, Len(prefix)) = prefix

\* What match() and a failed method call on its result yield.
Null == <<"null">>
TypeError == <<"TypeError">>

\* Index of the "(" of an "rgb(" or "rgba(" that begins at index i, else 0.
RgbOpenAt(s, i) ==
    IF i + 3 <= Len(s) /\ SubSeq(s, i, i + 2) = <<"r", "g", "b">>
    THEN IF s[i + 3] = "a"
         THEN IF i + 4 <= Len(s) /\ s[i + 4] = "(" THEN i + 4 ELSE 0
         ELSE IF s[i + 3] = "(" THEN i + 3 ELSE 0
    ELSE 0

\* "." matches no line terminator: the first one after index o ends the
\* stretch ".*" can cover.
DotLimit(s, o) ==
    LET nl == {k \in (o + 1)..Len(s) : s[k] = "\n"}
    IN  IF nl = {} THEN Len(s) + 1 ELSE CHOOSE k \in nl : \A m \in nl : k <= m

\* End of the match of /rgba?\(.*\d\)/ that begins at index i, else 0:
\* ".*" is greedy, so the match ends at the last ")" that follows a digit.
MatchEndAt(s, i) ==
    LET o == RgbOpenAt(s, i)
        ends == {e \in (o + 2)..(DotLimit(s, o) - 1) :
                    s[e] = ")" /\ IsDigit(s[e - 1])}
    IN  IF o = 0 \/ ends = {} THEN 0
        ELSE CHOOSE e \in ends : \A m \in ends : m <= e

\* item.match(/rgba?\(.*\d\)/): the leftmost match, or null.
RegexMatch(s) ==
    LET starts == {i \in 1..Len(s) : MatchEndAt(s, i) # 0}
    IN  IF starts = {} THEN Null
        ELSE LET i == CHOOSE k \in starts : \A m \in starts : k <= m
             IN  SubSeq(s, i, MatchEndAt(s, i))

\* The first map of options.colors: item => ...
resolveItem(item) ==
    IF StartsWith(item, <<"v", "a", "r", "(">>)
    THEN IF RegexMatch(item) = Null THEN TypeError ELSE RegexMatch(item)
    ELSE item

\* ------------------------------------------------------------------------
\* Color.toHexString(Color(d)) of the framer library
\* ------------------------------------------------------------------------
\* What normalisation yields for a string that is no colour.
InvalidColor == <<"invalid">>

DigitVal(ch) == (CHOOSE n \in 1..10 : DigitChars[n] = ch) - 1

AllDigits(ds) == ds # <<>> /\ \A k \in 1..Len(ds) : IsDigit(ds[k])

RECURSIVE ParseNat(_)
ParseNat(ds) ==
    IF ds = <<>> THEN 0
    ELSE ParseNat(SubSeq(ds, 1, Len(ds) - 1)) * 10 + DigitVal(ds[Len(ds)])

RECURSIVE SplitComma(_)
SplitComma(s) ==
    LET commas == {k \in 1..Len(s) : s[k] = ","}
    IN  IF commas = {} THEN <<s>>
        ELSE LET c == CHOOSE k \in commas : \A m \in commas : k <= m
             IN  <<SubSeq(s, 1, c - 1)>> \o SplitComma(SubSeq(s, c + 1, Len(s)))

RECURSIVE TrimLeft(_)
TrimLeft(s) ==
    IF s # <<>> /\ s[1] = " " THEN TrimLeft(SubSeq(s, 2, Len(s))) ELSE s

Min2(a, b) == IF a <= b THEN a ELSE b

Hex2(n) ==
    LET c == Min2(n, 255)
    IN  <<HexChars[(c \div 16) + 1], HexChars[(c % 16) + 1]>>

\* The channels of "rgb(r,g,b)" or "rgba(r,g,b,a)", else the empty sequence.
RgbChannels(s) ==
    LET o == RgbOpenAt(s, 1)
    IN  IF o = 0 \/ s[Len(s)] # ")" THEN <<>>
        ELSE LET parts == SplitComma(SubSeq(s, o + 1, Len(s) - 1))
                 want == IF o = 5 THEN 4 ELSE 3
             IN  IF Len(parts) = want
                    /\ \A k \in 1..3 : AllDigits(TrimLeft(parts[k]))
                 THEN [k \in 1..3 |-> ParseNat(TrimLeft(parts[k]))]
                 ELSE <<>>

\* Hexadecimal, named and functional notations are normalised to "#rrggbb";
\* the alpha channel is dropped.
toHexString(d) ==
    IF Len(d) = 7 /\ d[1] = "#" /\ \A k \in 2..7 : IsHexChar(d[k]) THEN d
    ELSE IF d = NamedRed THEN HexRed
    ELSE IF RgbChannels(d) # <<>>
         THEN LET ch == RgbChannels(d)
              IN  <<"#">> \o Hex2(ch[1]) \o Hex2(ch[2]) \o Hex2(ch[3])
         ELSE InvalidColor

\* ------------------------------------------------------------------------
\* Props
\* ------------------------------------------------------------------------
ChartTypes == {"line", "area", "bar", "heatmap", "radar"}
StrokeCurves == {"smooth", "straight", "stepline"}
FillTypes == {"solid", "gradient", "pattern"}
Palettes ==
    {"palette1", "palette2", "palette3", "palette4", "palette5", "palette6",
     "palette7", "palette8", "palette9", "palette10", "custom"}
\* The palettes the host is made to choose among.
PaletteSamples == Palettes \cap {"palette1", "palette2", "palette10", "custom"}
Handlers == {"undefined", "handlerA"}

defaultProps ==
    [width |-> 800, height |-> 600, chartType |-> "area",
     isHorizontal |-> FALSE, points |-> 5, seriesCount |-> 1,
     fillType |-> "gradient", fillOpacity |-> 8, stroke |-> 5,
     showStroke |-> TRUE, strokeCurve |-> "smooth", palette |-> "palette1",
     showToolbar |-> TRUE, showLegend |-> TRUE, showXaxis |-> TRUE,
     showYaxis |-> FALSE, isStacked |-> FALSE, colors |-> <<>>,
     onDataPointSelection |-> "undefined",
     onDataPointMouseEnter |-> "undefined",
     onDataPointMouseLeave |-> "undefined"]

\* The values the host can give each prop (fillOpacity in tenths, with
\* values outside [0, 1]); the colour list is edited one entry at a time.
ColorEdits(cs) ==
    {Append(cs, x) : x \in {y \in ColorStrings : Len(cs) < MaxColors}}
        \cup {SubSeq(cs, 1, Len(cs) - 1) : k \in {j \in {1} : Len(cs) > 0}}
        \cup {[cs EXCEPT ![k] = x] : k \in 1..Len(cs), x \in ColorStrings}

PropValues(p) ==
    [width |-> {800, 400}, height |-> {600, 300}, chartType |-> ChartTypes,
     isHorizontal |-> BOOLEAN, points |-> 0..MaxPoints,
     seriesCount |-> 0..MaxSeries, fillType |-> FillTypes,
     fillOpacity |-> {-2, 0, 8, 15}, stroke |-> {0, 5},
     showStroke |-> BOOLEAN, strokeCurve |-> StrokeCurves,
     palette |-> PaletteSamples, showToolbar |-> BOOLEAN, showLegend |-> BOOLEAN,
     showXaxis |-> BOOLEAN, showYaxis |-> BOOLEAN, isStacked |-> BOOLEAN,
     colors |-> ColorEdits(p.colors), onDataPointSelection |-> Handlers,
     onDataPointMouseEnter |-> Handlers, onDataPointMouseLeave |-> Handlers]

PropNames == DOMAIN defaultProps

\* The props a component is constructed with: the defaults, the defaults
\* overridden by {seriesCount: 2, points: 3, chartType: "area"}, and the
\* defaults with a custom palette of one colour.
ScenarioProps ==
    [defaultProps EXCEPT !.seriesCount = 2, !.points = 3, !.chartType = "area"]
CustomProps ==
    [defaultProps EXCEPT !.palette = "custom", !.colors = <<NamedRed>>]
MountProps == {defaultProps, ScenarioProps, CustomProps}

\* ------------------------------------------------------------------------
\* options
\* ------------------------------------------------------------------------
Undefined == <<<<"undefined">>>>

\* The colours consulted whatever the palette
UsesColors_AnyPalette(p) == Len(p.colors) > 0

\* colors.length > 0 && palette == "custom"
UsesColors(p) == Len(p.colors) > 0 /\ p.palette = "custom"

\* null.pop() in the first map throws out of the component function.
ProjectThrows(p) ==
    UsesColors(p) /\ \E k \in 1..Len(p.colors) : resolveItem(p.colors[k]) = TypeError

optionsColors(p) ==
    IF UsesColors(p)
    THEN [k \in 1..Len(p.colors) |-> toHexString(resolveItem(p.colors[k]))]
    ELSE Undefined

\* Every closure calling the setMounted of the first instance
optionsEvents_SharedSetter(c, p) ==
    [mounted |-> [setMounted |-> 1],
     dataPointSelection |-> p.onDataPointSelection,
     dataPointMouseEnter |-> p.onDataPointMouseEnter,
     dataPointMouseLeave |-> p.onDataPointMouseLeave]

\* chart.events of instance c; mounted is the closure that calls the
\* setMounted of c.
optionsEvents(c, p) ==
    [mounted |-> [setMounted |-> c],
     dataPointSelection |-> p.onDataPointSelection,
     dataPointMouseEnter |-> p.onDataPointMouseEnter,
     dataPointMouseLeave |-> p.onDataPointMouseLeave]

\* The opacity clamped to [0, 1]
optionsFill_Clamped(p) ==
    [opacity |-> Max2(0, Min2(10, p.fillOpacity)), type |-> p.fillType]

optionsFill(p) == [opacity |-> p.fillOpacity, type |-> p.fillType]

\* The options object of instance c.
options(c, p) ==
    [colors |-> optionsColors(p),
     theme |-> [palette |-> p.palette],
     chart |-> [id |-> "dogchart", type |-> p.chartType,
                stacked |-> p.isStacked,
                toolbar |-> [show |-> p.showToolbar],
                events |-> optionsEvents(c, p)],
     plotOptions |-> [bar |-> [horizontal |-> p.isHorizontal]],
     fill |-> optionsFill(p),
     stroke |-> [show |-> p.showStroke, curve |-> p.strokeCurve,
                 width |-> p.stroke],
     xaxis |-> [type |-> "datetime", labels |-> [show |-> p.showXaxis]],
     yaxis |-> [show |-> p.showYaxis],
     dataLabels |-> [enabled |-> FALSE],
     noData |-> [text |-> "No Data"],
     legend |-> [show |-> p.showLegend]]

\* The elements one invocation returns: the placeholder frame and <Chart>.
Element(c, p, ser, mnt) ==
    [placeholder |-> [visible |-> ~mnt],
     frame |-> [width |-> p.width, height |-> p.height],
     chart |-> [options |-> options(c, p), series |-> ser,
                type |-> p.chartType, width |-> p.width,
                height |-> p.height]]

NoElement == [none |-> TRUE]

\* ------------------------------------------------------------------------
\* Property controls
\* ------------------------------------------------------------------------
ControlNames ==
    {"chartType", "isHorizontal", "points", "seriesCount", "fillType",
     "fillOpacity", "showStroke", "stroke", "strokeCurve", "palette",
     "showXaxis", "showYaxis", "showLegend", "showToolbar", "isStacked",
     "colors"}

\* The orientation control hidden for the bar chart instead
hidden_BarInverted(name, p) ==
    CASE name = "isHorizontal" -> p.chartType = "bar"
      [] name = "fillOpacity" -> p.fillType # "solid"
      [] name = "stroke" -> p.showStroke = FALSE
      [] name = "colors" -> p.palette # "custom"
      [] OTHER -> FALSE

\* hidden(props) of a control; a control that declares none is shown.
hidden(name, p) ==
    CASE name = "isHorizontal" -> p.chartType # "bar"
      [] name = "fillOpacity" -> p.fillType # "solid"
      [] name = "stroke" -> p.showStroke = FALSE
      [] name = "colors" -> p.palette # "custom"
      [] OTHER -> FALSE

HiddenControls(p) == {name \in ControlNames : hidden(name, p)}

\* ------------------------------------------------------------------------
\* The component
\* ------------------------------------------------------------------------
\* makeSeries as the component calls it; the clock stands still during the
\* call and every point gets the draw u.
freshSeries(p, u) ==
    LET n == p.seriesCount * p.points
    IN  makeSeries(p.seriesCount, p.points, [k \in 1..n |-> now],
                   [k \in 1..n |-> u])

\* A dependency list without points
Deps_SeriesCountOnly(p) == <<p.seriesCount>>

\* The dependency list of the effect: [seriesCount, points]
Deps(p) == <<p.seriesCount, p.points>>

\* First invocation of Charting(props): the useState initialisers run, the
\* elements are returned and the effect is scheduled.
Mount(c, p) ==
    /\ phase[c] = "absent"
    /\ props' = [props EXCEPT ![c] = p]
    /\ panel' = [panel EXCEPT ![c] = HiddenControls(p)]
    /\ lastEvent' = [kind |-> "Mount", inst |-> c]
    /\ IF ProjectThrows(p)
       THEN /\ phase' = [phase EXCEPT ![c] = "crashed"]
            /\ UNCHANGED <<series, mounted, rendered, effectPending, dirty>>
       ELSE \E u \in RandomSamples :
            /\ phase' = [phase EXCEPT ![c] = "live"]
            /\ series' = [series EXCEPT ![c] = freshSeries(p, u)]
            /\ mounted' = [mounted EXCEPT ![c] = FALSE]
            /\ rendered' = [rendered EXCEPT
                              ![c] = Element(c, p, freshSeries(p, u), FALSE)]
            /\ effectPending' = [effectPending EXCEPT ![c] = TRUE]
            /\ dirty' = [dirty EXCEPT ![c] = FALSE]
    /\ UNCHANGED <<now, genVars, changes>>

\* The host changes prop f to v and Charting(props) is invoked again: the
\* argument of useState is evaluated and dropped, the elements for the new
\* props and the stored state are returned, and the effect is scheduled
\* when a dependency changed.  Effects of the previous invocation have run
\* before the next one starts.
Update(c, f, v) ==
    /\ phase[c] = "live"
    /\ ~effectPending[c]
    /\ changes[c] < MaxChanges
    /\ v # props[c][f]
    /\ LET p == [props[c] EXCEPT ![f] = v]
       IN  /\ props' = [props EXCEPT ![c] = p]
           /\ panel' = [panel EXCEPT ![c] = HiddenControls(p)]
           /\ IF ProjectThrows(p)
              THEN /\ phase' = [phase EXCEPT ![c] = "crashed"]
                   /\ UNCHANGED <<rendered, effectPending, dirty>>
              ELSE /\ rendered' = [rendered EXCEPT
                          ![c] = Element(c, p, series[c], mounted[c])]
                   /\ effectPending' = [effectPending EXCEPT
                          ![c] = Deps(p) # Deps(props[c])]
                   /\ dirty' = [dirty EXCEPT ![c] = FALSE]
                   /\ UNCHANGED phase
    /\ changes' = [changes EXCEPT ![c] = @ + 1]
    /\ lastEvent' = [kind |-> "Update", inst |-> c]
    /\ UNCHANGED <<now, genVars, series, mounted>>

\* The effect: setSeries(makeSeries(seriesCount, points))
RunEffect(c) ==
    /\ phase[c] = "live"
    /\ effectPending[c]
    /\ \E u \in RandomSamples :
          series' = [series EXCEPT ![c] = freshSeries(props[c], u)]
    /\ effectPending' = [effectPending EXCEPT ![c] = FALSE]
    /\ dirty' = [dirty EXCEPT ![c] = TRUE]
    /\ lastEvent' = [kind |-> "RunEffect", inst |-> c]
    /\ UNCHANGED <<now, genVars, props, mounted, phase, rendered, panel,
                   changes>>

\* Charting(props) invoked again after a state update, with the same props.
Rerender(c) ==
    /\ phase[c] = "live"
    /\ dirty[c]
    /\ ~effectPending[c]
    /\ rendered' = [rendered EXCEPT
                      ![c] = Element(c, props[c], series[c], mounted[c])]
    /\ dirty' = [dirty EXCEPT ![c] = FALSE]
    /\ lastEvent' = [kind |-> "Rerender", inst |-> c]
    /\ UNCHANGED <<now, genVars, props, series, mounted, phase,
                   effectPending, panel, changes>>

\* The chart of instance c fires the mounted event it was given:
\* function(chartContext, config) { setMounted(true) }
ChartMounted(c) ==
    /\ phase[c] = "live"
    /\ LET target == rendered[c].chart.options.chart.events.mounted.setMounted
       IN  /\ mounted' = [mounted EXCEPT ![target] = TRUE]
           /\ dirty' = [dirty EXCEPT ![target] = @ \/ ~mounted[target]]
    /\ lastEvent' = [kind |-> "ChartMounted", inst |-> c]
    /\ UNCHANGED <<now, genVars, props, series, phase, effectPending,
                   rendered, panel, changes>>

\* ------------------------------------------------------------------------
\* A stand-alone call of makeSeries
\* ------------------------------------------------------------------------
GenCall ==
    /\ genPc = "call"
    /\ LET n == genArgs.seriesCount * genArgs.points
       IN  /\ genResult' = makeSeries(genArgs.seriesCount, genArgs.points,
                                      ReadsOf(now, genArgs.ticks, n),
                                      genArgs.draws)
           /\ now' = IF n = 0 THEN now ELSE ClockRead(now, genArgs.ticks, n)
    /\ genPc' = "done"
    /\ lastEvent' = [kind |-> "GenCall", inst |-> 0]
    /\ UNCHANGED <<genArgs, compVars>>

\* ------------------------------------------------------------------------
\* Specifications
\* ------------------------------------------------------------------------
InitComp ==
    /\ props = [c \in Instances |-> defaultProps]
    /\ series = [c \in Instances |-> <<>>]
    /\ mounted = [c \in Instances |-> FALSE]
    /\ phase = [c \in Instances |-> "absent"]
    /\ effectPending = [c \in Instances |-> FALSE]
    /\ dirty = [c \in Instances |-> FALSE]
    /\ rendered = [c \in Instances |-> NoElement]
    /\ panel = [c \in Instances |-> {}]
    /\ changes = [c \in Instances |-> 0]
    /\ lastEvent = [kind |-> "Init", inst |-> 0]

GenInputs ==
    UNION {[seriesCount : {sc}, points : {pt}, draws : DrawsFor(sc * pt),
            ticks : TicksFor(sc * pt)] :
           <<sc, pt>> \in (0..MaxSeries) \X (0..MaxPoints)}

\* One component driven by the host.
Init ==
    /\ InitComp
    /\ now = 0
    /\ genPc = "idle"
    /\ genArgs = [seriesCount |-> 0, points |-> 0, draws |-> <<>>,
                  ticks |-> [j \in 1..MaxTick |-> 0]]
    /\ genResult = <<>>

Next ==
    \/ \E p \in MountProps : Mount(1, p)
    \/ \E f \in PropNames : \E v \in PropValues(props[1])[f] : Update(1, f, v)
    \/ RunEffect(1)
    \/ Rerender(1)
    \/ ChartMounted(1)

Spec == Init /\ [][Next]_vars

\* makeSeries on its own, for every input, entropy and clock behaviour.
InitGen ==
    /\ InitComp
    /\ now = 0
    /\ genPc = "call"
    /\ genArgs \in GenInputs
    /\ genResult = <<>>

NextGen == GenCall

SpecGen == InitGen /\ [][NextGen]_vars

\* Two components side by side; the host changes seriesCount and showLegend.
MultiProps == {"seriesCount", "showLegend"}

NextMulti ==
    \E c \in Instances :
        \/ Mount(c, defaultProps)
        \/ \E f \in MultiProps : \E v \in PropValues(props[c])[f] : Update(c, f, v)
        \/ RunEffect(c)
        \/ Rerender(c)
        \/ ChartMounted(c)

SpecMulti == Init /\ [][NextMulti]_vars

\* ------------------------------------------------------------------------
\* Properties
\* ------------------------------------------------------------------------
ShapeIs(ser, sc, pt) ==
    /\ Len(ser) = sc
    /\ \A s \in 1..Len(ser) : Len(ser[s].data) = pt

\* C1: makeSeries(seriesCount, points) returns exactly seriesCount series of
\* exactly points [timestamp, value] pairs each, every value an integer in
\* [250, 3000); makeSeries(0, n) is the empty series set and makeSeries(n, 0)
\* is n series with empty data.
C1_SeriesShapeAndRange ==
    genPc = "done" =>
        /\ Len(genResult) = genArgs.seriesCount
        /\ \A s \in 1..Len(genResult) :
              /\ Len(genResult[s].data) = genArgs.points
              /\ \A i \in 1..Len(genResult[s].data) :
                    /\ Len(genResult[s].data[i]) = 2
                    /\ genResult[s].data[i][2] \in Int
                    /\ 250 <= genResult[s].data[i][2]
                    /\ genResult[s].data[i][2] < 3000
        /\ (genArgs.seriesCount = 0 => genResult = <<>>)
        /\ (genArgs.points = 0 =>
              \A s \in 1..genArgs.seriesCount : genResult[s].data = <<>>)

C1_Witness ==
    /\ genPc = "done"
    /\ genArgs.seriesCount = 2
    /\ genArgs.points = 3
    /\ genResult[1].data[1][2] = 250
    /\ genResult[2].data[3][2] = 2997

\* C2: in every series makeSeries returns, each timestamp is exactly one hour
\* (3,600,000 ms) before the previous one, whatever the clock does during
\* the call.
C2_ExactHourSteps ==
    genPc = "done" =>
        \A s \in 1..Len(genResult) :
            \A i \in 1..(Len(genResult[s].data) - 1) :
                /\ genResult[s].data[i + 1][1] < genResult[s].data[i][1]
                /\ genResult[s].data[i + 1][1] = genResult[s].data[i][1] - 3600000

\* C3: a change of props that alters seriesCount or points schedules the
\* regeneration, which replaces the stored series by a makeSeries result of
\* the new shape; a change that alters neither leaves the stored series
\* unchanged and schedules nothing.
C3_RegenerationFrame ==
    [][\A c \in Instances :
        LET hostChange == /\ phase[c] = "live" /\ phase'[c] = "live"
                          /\ props'[c] # props[c]
            shapeChange == \/ props'[c].seriesCount # props[c].seriesCount
                           \/ props'[c].points # props[c].points
        IN  /\ hostChange /\ ~shapeChange =>
                  series'[c] = series[c] /\ ~effectPending'[c]
            /\ hostChange /\ shapeChange =>
                  series'[c] = series[c] /\ effectPending'[c]
            /\ effectPending[c] /\ ~effectPending'[c] =>
                  \E u \in RandomSamples : series'[c] = freshSeries(props[c], u)
            /\ phase'[c] = "live" /\ ~effectPending'[c] =>
                  ShapeIs(series'[c], props'[c].seriesCount, props'[c].points)
      ]_vars

C3_Witness ==
    /\ phase[1] = "live"
    /\ changes[1] = 2
    /\ lastEvent.kind = "RunEffect"
    /\ props[1].chartType = "bar"
    /\ props[1].points = 2
    /\ ShapeIs(series[1], 1, 2)

\* C4: options.colors is the list of the resolved entries of colors, in
\* order, exactly when palette is "custom" and colors is non-empty, and
\* undefined otherwise; theme.palette is the palette.
C4_ColorsWhenCustom ==
    \A c \in Instances :
        phase[c] = "live" =>
            LET o == rendered[c].chart.options
                p == props[c]
            IN  /\ o.theme.palette = p.palette
                /\ (p.palette = "custom" /\ Len(p.colors) > 0) =>
                      /\ o.colors # Undefined
                      /\ Len(o.colors) = Len(p.colors)
                      /\ \A k \in 1..Len(p.colors) :
                            o.colors[k] = toHexString(resolveItem(p.colors[k]))
                /\ ~(p.palette = "custom" /\ Len(p.colors) > 0) =>
                      o.colors = Undefined

C4_Witness ==
    /\ phase[1] = "live"
    /\ props[1].palette = "custom"
    /\ props[1].colors = <<NamedRed, VarBlue>>
    /\ rendered[1].chart.options.colors =
          <<HexRed, <<"#", "0", "0", "8", "0", "f", "f">>>>

\* C5: the projection raises no error; an entry that starts with "var(" and
\* embeds no rgb()/rgba() expression is handed to normalisation as it is.
C5_UnmatchedReferencePassedThrough ==
    \A c \in Instances :
        /\ phase[c] # "crashed"
        /\ phase[c] = "live" /\ props[c].palette = "custom" =>
              \A k \in 1..Len(props[c].colors) :
                  (/\ StartsWith(props[c].colors[k], <<"v", "a", "r", "(">>)
                   /\ RegexMatch(props[c].colors[k]) = Null) =>
                      rendered[c].chart.options.colors[k] =
                          toHexString(props[c].colors[k])

\* C6: every field of options is the prop it is projected from, the three
\* constants are fixed, and a component constructed with {seriesCount: 2,
\* points: 3, chartType: "area"} has 2 series of 3 points, chart.type
\* "area", chart.stacked false and legend.show true.
C6_VerbatimProjection ==
    \A c \in Instances :
        phase[c] = "live" =>
            LET o == rendered[c].chart.options
                p == props[c]
            IN  /\ o.chart.type = p.chartType
                /\ o.chart.stacked = p.isStacked
                /\ o.chart.toolbar.show = p.showToolbar
                /\ o.plotOptions.bar.horizontal = p.isHorizontal
                /\ o.fill.opacity = p.fillOpacity
                /\ o.fill.type = p.fillType
                /\ o.stroke.show = p.showStroke
                /\ o.stroke.curve = p.strokeCurve
                /\ o.stroke.width = p.stroke
                /\ o.xaxis.labels.show = p.showXaxis
                /\ o.yaxis.show = p.showYaxis
                /\ o.legend.show = p.showLegend
                /\ o.chart.events.dataPointSelection = p.onDataPointSelection
                /\ o.chart.events.dataPointMouseEnter = p.onDataPointMouseEnter
                /\ o.chart.events.dataPointMouseLeave = p.onDataPointMouseLeave
                /\ o.xaxis.type = "datetime"
                /\ o.dataLabels.enabled = FALSE
                /\ o.noData.text = "No Data"
                /\ (changes[c] = 0 /\ p = ScenarioProps) =>
                      /\ ShapeIs(series[c], 2, 3)
                      /\ ShapeIs(rendered[c].chart.series, 2, 3)
                      /\ o.chart.type = "area"
                      /\ o.chart.stacked = FALSE
                      /\ o.legend.show = TRUE

C6_Witness ==
    /\ phase[1] = "live"
    /\ props[1].seriesCount = 2
    /\ props[1].points = 3
    /\ props[1].fillOpacity = 15
    /\ props[1].onDataPointSelection = "handlerA"
    /\ rendered[1].chart.options.fill.opacity = 15
    /\ rendered[1].chart.options.chart.events.dataPointSelection = "handlerA"
    /\ ShapeIs(rendered[1].chart.series, 2, 3)

\* C7: the orientation control is hidden exactly when chartType is not
\* "bar", the opacity control exactly when fillType is not "solid", the
\* width control exactly when showStroke is false, the colors control
\* exactly when palette is not "custom"; no other control is ever hidden.
C7_VisibilityPredicates ==
    \A c \in Instances :
        phase[c] # "absent" =>
            /\ ("isHorizontal" \in panel[c]) <=> (props[c].chartType # "bar")
            /\ ("fillOpacity" \in panel[c]) <=> (props[c].fillType # "solid")
            /\ ("stroke" \in panel[c]) <=> ~props[c].showStroke
            /\ ("colors" \in panel[c]) <=> (props[c].palette # "custom")
            /\ panel[c] \subseteq {"isHorizontal", "fillOpacity", "stroke", "colors"}

C7_Witness ==
    /\ phase[1] = "live"
    /\ props[1].chartType = "bar"
    /\ props[1].palette = "custom"
    /\ panel[1] = {"fillOpacity"}

\* C8: an entry that starts with "var(" and wraps an rgb()/rgba() expression
\* resolves to exactly that expression, from "rgb" through its own closing
\* parenthesis, and that expression is what is normalised; any other entry
\* is normalised unchanged.
C8_ExtractsEmbeddedExpression ==
    \A c \in Instances :
        (phase[c] = "live" /\ props[c].palette = "custom") =>
            \A k \in 1..Len(props[c].colors) :
                LET item == props[c].colors[k]
                    rgbs == {i \in 1..Len(item) : RgbOpenAt(item, i) # 0}
                    i0 == CHOOSE i \in rgbs : \A m \in rgbs : i <= m
                    closes == {e \in RgbOpenAt(item, i0)..Len(item) : item[e] = ")"}
                    e0 == CHOOSE e \in closes : \A m \in closes : e <= m
                    embedded == SubSeq(item, i0, e0)
                IN  IF StartsWith(item, <<"v", "a", "r", "(">>)
                    THEN rgbs # {} =>
                            /\ resolveItem(item) = embedded
                            /\ rendered[c].chart.options.colors[k] =
                                  toHexString(embedded)
                    ELSE rendered[c].chart.options.colors[k] = toHexString(item)

\* C9: every invocation hands <Chart> a series set of the shape of the
\* props of that invocation.
C9_RenderedSeriesCurrent ==
    \A c \in Instances :
        phase[c] = "live" =>
            ShapeIs(rendered[c].chart.series, props[c].seriesCount,
                    props[c].points)

\* C10: the mounted flag starts false, becomes true only by the mounted
\* event of the chart of the same instance, never becomes false again, and
\* the placeholder frame of the returned elements is visible exactly when
\* the flag is false.
C10_MountedFlag ==
    [][\A c \in Instances :
        /\ phase[c] = "absent" /\ phase'[c] = "live" => ~mounted'[c]
        /\ mounted[c] => mounted'[c]
        /\ ~mounted[c] /\ mounted'[c] =>
              lastEvent'.kind = "ChartMounted" /\ lastEvent'.inst = c
        /\ phase'[c] = "live" /\ ~dirty'[c] =>
              rendered'[c].placeholder.visible = ~mounted'[c]
      ]_vars

C10_Witness ==
    /\ phase[1] = "live" /\ phase[2] = "live"
    /\ mounted[1] /\ ~mounted[2]
    /\ ~dirty[1] /\ ~dirty[2]
    /\ changes[1] > 0
    /\ ~rendered[1].placeholder.visible
    /\ rendered[2].placeholder.visible

====
